---- MODULE Spec2Model ----
(***************************************************************************)
(* Model of the core of src/src/ams_compiler.py: build_tree and            *)
(* __build_element__ (indentation-driven tree construction), the marker    *)
(* and node classes, and compile_tree_list (flattening).                   *)
(*                                                                         *)
(* A text line is a sequence of one-character strings, so that strip(),    *)
(* startswith() and __count_indents__ are computed character by character. *)
(* Line indices are 0-based as in the source: line i is file[i + 1].       *)
(***************************************************************************)
EXTENDS Integers, Sequences, FiniteSets, TLC

(***************************************************************************)
(* Bounds of the checked inputs.                                           *)
(***************************************************************************)
MaxLines == 4
MaxIndent == 2

(***************************************************************************)
(* Characters.                                                             *)
(***************************************************************************)
\* indent_chars of __count_indents__
indent_chars == {"\t", " "}

\* the characters str.strip() removes (Python's ASCII whitespace)
Whitespace == {" ", "\t", "\n", "\r", "\f"}

RECURSIVE lstrip(_)
lstrip(s) ==
  IF Len(s) > 0 /\ Head(s) \in Whitespace THEN lstrip(Tail(s)) ELSE s

RECURSIVE rstrip(_)
rstrip(s) ==
  IF Len(s) > 0 /\ s[Len(s)] \in Whitespace
    THEN rstrip(SubSeq(s, 1, Len(s) - 1))
    ELSE s

\* str.strip(): leading and trailing whitespace removed
strip(s) == rstrip(lstrip(s))

\* str.startswith("#")
startswith_hash(s) == Len(s) > 0 /\ s[1] = "#"

\* the loop of __count_indents__, entered with `indents` characters counted
RECURSIVE count_from(_, _)
count_from(string, indents) ==
  IF indents < Len(string) /\ string[indents + 1] \in indent_chars
    THEN count_from(string, indents + 1)
    ELSE indents

__count_indents__(string) == count_from(string, 0)

\* the test `len(command.strip()) == 0` of build_tree and __build_element__
IsBlankNoStrip(command) == Len(command) = 0
IsBlank(command) == Len(strip(command)) = 0

\* file[line], 0-based
At(f, i) == f[i + 1]

\* the test `next_indent > indent` of __build_element__ (line 256)
IsDeeperOrEqual(next_indent, indent) == next_indent >= indent
IsDeeper(next_indent, indent) == next_indent > indent

(***************************************************************************)
(* Tree elements.  `line` is a history field: the index of the line the    *)
(* element was constructed from (the `line` argument of the call of        *)
(* __build_element__ that made it).  A marker has no children attribute;   *)
(* it is modelled with an always-empty one.                                *)
(***************************************************************************)
None == [kind |-> "None", string |-> <<>>, children |-> <<>>, line |-> -1]

marker(string, i) ==
  [kind |-> "marker", string |-> string, children |-> <<>>, line |-> i]

node(string, i) ==
  [kind |-> "node", string |-> string, children |-> <<>>, line |-> i]

\* marker.add_child: warns and stores nothing
marker_add_child_keep(self, child) ==
  [self EXCEPT !.children = Append(@, child)]
marker_add_child(self, child) == self

\* node.add_child: appends (the str branch converts a string to a node;
\* the builder only ever passes elements)
node_add_child_front(self, child) ==
  [self EXCEPT !.children = <<child>> \o @]
node_add_child(self, child) ==
  [self EXCEPT !.children = Append(@, child)]

add_child(self, child) ==
  IF self.kind = "marker" THEN marker_add_child(self, child)
                          ELSE node_add_child(self, child)

\* the element __build_element__ constructs for non-blank line `i`
new_element(f, i) ==
  IF startswith_hash(strip(At(f, i)))
    THEN marker(strip(At(f, i)), i)
    ELSE node(strip(At(f, i)), i)

(***************************************************************************)
(* Compilation.                                                            *)
(***************************************************************************)
RECURSIVE Flatten(_)
Flatten(ss) == IF ss = <<>> THEN <<>> ELSE Head(ss) \o Flatten(Tail(ss))

Reverse(s) == [k \in 1..Len(s) |-> s[Len(s) + 1 - k]]

\* marker.compile
marker_compile_prefixed(self, parent) == <<parent \o self.string>>
marker_compile(self, parent) == <<self.string>>

RECURSIVE compile(_, _)

\* node.compile
node_compile_reversed(self, parent) ==
  LET next_str == parent \o self.string \o <<" ">>
  IN  IF Len(self.children) > 0
        THEN Flatten(Reverse([k \in 1..Len(self.children) |->
                       compile(self.children[k], next_str)]))
        ELSE <<next_str>>
node_compile_own_line(self, parent) ==
  LET next_str == parent \o self.string \o <<" ">>
  IN  IF Len(self.children) > 0
        THEN <<next_str>> \o Flatten([k \in 1..Len(self.children) |->
                       compile(self.children[k], next_str)])
        ELSE <<next_str>>
node_compile(self, parent) ==
  LET next_str == parent \o self.string \o <<" ">>
  IN  IF Len(self.children) > 0
        THEN Flatten([k \in 1..Len(self.children) |->
                       compile(self.children[k], next_str)])
        ELSE <<next_str>>

\* dynamic dispatch of element.compile(parent)
compile(self, parent) ==
  IF self.kind = "marker" THEN marker_compile(self, parent)
                          ELSE node_compile(self, parent)

(***************************************************************************)
(* build_tree and __build_element__ as functions of the line list.         *)
(***************************************************************************)
RECURSIVE build_element_fn(_, _)
RECURSIVE look_ahead(_, _, _, _)

\* the while loop of __build_element__ (lines 243-264), entered with cursor
\* next_line; yields the pair the call returns
look_ahead(f, indent, current_element, next_line) ==
  IF next_line = Len(f)
    THEN [element |-> current_element, next_line |-> next_line]
    ELSE IF IsBlank(At(f, next_line))
      THEN look_ahead(f, indent, current_element, next_line + 1)
      ELSE IF IsDeeper(__count_indents__(At(f, next_line)), indent)
        THEN LET r == build_element_fn(f, next_line)
             IN  look_ahead(f, indent, add_child(current_element, r.element),
                            r.next_line)
        ELSE [element |-> current_element, next_line |-> next_line]

\* __build_element__(file, line)
build_element_fn(f, i) ==
  IF IsBlank(At(f, i))
    THEN [element |-> None, next_line |-> i]
    ELSE look_ahead(f, __count_indents__(At(f, i)), new_element(f, i), i + 1)

\* the while loop of build_tree, entered with cursor i and the roots so far
RECURSIVE build_tree_from(_, _, _)
build_tree_from(f, i, roots) ==
  IF i < Len(f)
    THEN IF IsBlank(At(f, i))
      THEN build_tree_from(f, i + 1, roots)
      ELSE LET r == build_element_fn(f, i)
           IN  build_tree_from(f, r.next_line, Append(roots, r.element))
    ELSE roots

\* build_tree(file)
build_tree_fn(f) == build_tree_from(f, 0, <<>>)

\* compile_tree_list(tree_list): the compiled lines, then the joined text
compiled_list_fn(roots) ==
  Flatten([k \in 1..Len(roots) |-> compile(roots[k], <<>>)])

compile_tree_list_fn(roots) ==
  LET cl == compiled_list_fn(roots)
  IN  Flatten([k \in 1..Len(cl) |-> cl[k] \o <<"\n">>])

\* compile_file: in_text -> out_text
compile_file_fn(f) == compile_tree_list_fn(build_tree_fn(f))

(***************************************************************************)
(* Inputs.                                                                 *)
(***************************************************************************)
\* k leading indent characters, tabs and spaces mixed
IndentString(k) == [j \in 1..k |-> IF j % 2 = 1 THEN "\t" ELSE " "]

\* line contents after the indentation: a command, a comment followed by
\* trailing whitespace
Bodies == {<<"a">>, <<"#", " ">>}

\* blank lines: the empty line and a whitespace-only line deeper than any
\* other line
BlankLines == {<<>>, IndentString(MaxIndent + 1)}

Lines ==
  {IndentString(k) \o b : k \in 0..MaxIndent, b \in Bodies} \cup BlankLines

\* the examples of the documentation
ExampleSayHi == << <<"s", "a", "y", " ", "h", "i">> >>

ExampleNested == <<
  <<"e", "x", "e", "c", "u", "t", "e", " ", "i", "f", " ", "a">>,
  <<"\t", "e", "x", "e", "c", "u", "t", "e", " ", "i", "f", " ", "b">>,
  <<"\t", "\t", "r", "u", "n", " ", "c", "m", "d", "1">>,
  <<"\t", "\t", "r", "u", "n", " ", "c", "m", "d", "2">>,
  <<"\t", "i", "f", " ", "c">>,
  <<"\t", "\t", "r", "u", "n", " ", "c", "m", "d", "3">> >>

Files ==
  UNION {[1..n -> Lines] : n \in 0..MaxLines} \cup {ExampleSayHi, ExampleNested}

(***************************************************************************)
(* The program as a state machine: one run of compile_file on `file`.      *)
(***************************************************************************)
VARIABLES
  file,             \* in_text after split("\n")
  pc,               \* "build_tree", "compile_tree_list" or "done"
  line,             \* build_tree: the cursor `line`
  tree_list,        \* build_tree: `tree_list`
  stack,            \* the active calls of __build_element__, innermost last
  warned,           \* number of warnings.warn calls made by marker.add_child
  ti,               \* compile_tree_list: trees compiled by the first loop
  compiled_list,    \* compile_tree_list: `compiled_list`
  ei,               \* compile_tree_list: elements joined by the second loop
  compiled_string   \* compile_tree_list: `compiled_string`

vars == <<file, pc, line, tree_list, stack, warned, ti, compiled_list, ei,
          compiled_string>>

build_vars == <<line, tree_list, stack, warned>>
compile_vars == <<ti, compiled_list, ei, compiled_string>>

\* the locals of a call __build_element__(file, i) when it reaches its loop
FrameNoAdvance(f, i) ==
  [ line |-> i,
    indent |-> __count_indents__(At(f, i)),
    current_element |-> new_element(f, i),
    next_line |-> i ]
Frame(f, i) ==
  [ line |-> i,
    indent |-> __count_indents__(At(f, i)),
    current_element |-> new_element(f, i),
    next_line |-> i + 1 ]

Top == stack[Len(stack)]
Pop(s) == SubSeq(s, 1, Len(s) - 1)

Init ==
  /\ file \in Files
  /\ pc = "build_tree"
  /\ line = 0
  /\ tree_list = <<>>
  /\ stack = <<>>
  /\ warned = 0
  /\ ti = 0
  /\ compiled_list = <<>>
  /\ ei = 0
  /\ compiled_string = <<>>

\* build_tree, lines 205-207: a blank line is skipped
build_tree_skip ==
  /\ pc = "build_tree" /\ stack = <<>>
  /\ line < Len(file)
  /\ IsBlank(At(file, line))
  /\ line' = line + 1
  /\ UNCHANGED <<file, pc, tree_list, stack, warned, compile_vars>>

\* build_tree, line 209: __build_element__ is called on a non-blank line
\* and runs up to its loop
build_tree_call ==
  /\ pc = "build_tree" /\ stack = <<>>
  /\ line < Len(file)
  /\ ~IsBlank(At(file, line))
  /\ stack' = <<Frame(file, line)>>
  /\ UNCHANGED <<file, pc, line, tree_list, warned, compile_vars>>

\* __build_element__, lines 250-252: the look-ahead skips a blank line
build_element_skip ==
  /\ pc = "build_tree" /\ stack # <<>>
  /\ Top.next_line # Len(file)
  /\ IsBlank(At(file, Top.next_line))
  /\ stack' = [stack EXCEPT ![Len(stack)].next_line = @ + 1]
  /\ UNCHANGED <<file, pc, line, tree_list, warned, compile_vars>>

\* __build_element__, lines 254-257: a deeper line starts a recursive call
build_element_call ==
  /\ pc = "build_tree" /\ stack # <<>>
  /\ Top.next_line # Len(file)
  /\ ~IsBlank(At(file, Top.next_line))
  /\ IsDeeper(__count_indents__(At(file, Top.next_line)), Top.indent)
  /\ stack' = Append(stack, Frame(file, Top.next_line))
  /\ UNCHANGED <<file, pc, line, tree_list, warned, compile_vars>>

\* the loop of the innermost call is over: end of input (line 243) or a
\* line that is not deeper (line 260)
LoopExit ==
  IF Top.next_line = Len(file)
    THEN TRUE
    ELSE /\ ~IsBlank(At(file, Top.next_line))
         /\ ~IsDeeper(__count_indents__(At(file, Top.next_line)), Top.indent)

\* __build_element__ returns to the call of line 257, which stores the
\* cursor and hands the element to add_child (line 258)
build_element_return ==
  /\ pc = "build_tree" /\ Len(stack) > 1
  /\ LoopExit
  /\ LET caller == stack[Len(stack) - 1]
     IN  /\ stack' = [Pop(stack) EXCEPT ![Len(stack) - 1] =
                  [caller EXCEPT
                     !.current_element = add_child(@, Top.current_element),
                     !.next_line = Top.next_line]]
         /\ warned' = IF caller.current_element.kind = "marker"
                        THEN warned + 1 ELSE warned
  /\ UNCHANGED <<file, pc, line, tree_list, compile_vars>>

\* __build_element__ returns to build_tree, lines 209-211
build_tree_append ==
  /\ pc = "build_tree" /\ Len(stack) = 1
  /\ LoopExit
  /\ line' = Top.next_line
  /\ tree_list' = Append(tree_list, Top.current_element)
  /\ stack' = <<>>
  /\ UNCHANGED <<file, pc, warned, compile_vars>>

\* build_tree returns (line 213) and compile_file calls compile_tree_list
build_tree_return ==
  /\ pc = "build_tree" /\ stack = <<>>
  /\ ~(line < Len(file))
  /\ pc' = "compile_tree_list"
  /\ UNCHANGED <<file, build_vars, compile_vars>>

\* compile_tree_list, lines 273-274: one iteration of the first loop
compile_tree ==
  /\ pc = "compile_tree_list"
  /\ ti < Len(tree_list)
  /\ compiled_list' = compiled_list \o compile(tree_list[ti + 1], <<>>)
  /\ ti' = ti + 1
  /\ UNCHANGED <<file, pc, build_vars, ei, compiled_string>>

\* compile_tree_list, lines 277-278: one iteration of the second loop
join_element ==
  /\ pc = "compile_tree_list"
  /\ ti = Len(tree_list)
  /\ ei < Len(compiled_list)
  /\ compiled_string' = compiled_string \o compiled_list[ei + 1] \o <<"\n">>
  /\ ei' = ei + 1
  /\ UNCHANGED <<file, pc, build_vars, ti, compiled_list>>

\* compile_tree_list returns compiled_string (line 280), the out_text
compile_tree_list_return ==
  /\ pc = "compile_tree_list"
  /\ ti = Len(tree_list)
  /\ ei = Len(compiled_list)
  /\ pc' = "done"
  /\ UNCHANGED <<file, build_vars, compile_vars>>

Next ==
  \/ build_tree_skip
  \/ build_tree_call
  \/ build_element_skip
  \/ build_element_call
  \/ build_element_return
  \/ build_tree_append
  \/ build_tree_return
  \/ compile_tree
  \/ join_element
  \/ compile_tree_list_return

Spec == Init /\ [][Next]_vars

\* the interpreter runs the single thread to completion
FairSpec == Spec /\ WF_vars(Next)

\* the two translations of the builder and compiler agree
ModelsAgree ==
  /\ pc # "build_tree" => tree_list = build_tree_fn(file)
  /\ pc = "done" => compiled_string = compile_file_fn(file)

(***************************************************************************)
(* Notions the properties are stated with.                                 *)
(***************************************************************************)
\* an element and everything below it
RECURSIVE Elements(_)
Elements(e) ==
  {e} \cup UNION {Elements(e.children[k]) : k \in 1..Len(e.children)}

\* the elements of the roots built so far, and of the calls in progress
TreeElements == UNION {Elements(tree_list[k]) : k \in 1..Len(tree_list)}
StackElements ==
  UNION {Elements(stack[k].current_element) : k \in 1..Len(stack)}

\* the source lines an element and its descendants were built from
SubtreeLines(e) == {x.line : x \in Elements(e)}

IsLeaf(e) == e.kind = "node" /\ Len(e.children) = 0

RECURSIVE CountLeaves(_)
CountLeaves(e) ==
  IF e.kind = "marker" THEN 0
  ELSE IF Len(e.children) = 0 THEN 1
  ELSE LET c == [k \in 1..Len(e.children) |-> CountLeaves(e.children[k])]
           sum[k \in 0..Len(e.children)] ==
             IF k = 0 THEN 0 ELSE sum[k - 1] + c[k]
       IN  sum[Len(e.children)]

RECURSIVE CountMarkers(_)
CountMarkers(e) ==
  IF e.kind = "marker" THEN 1
  ELSE LET c == [k \in 1..Len(e.children) |-> CountMarkers(e.children[k])]
           sum[k \in 0..Len(e.children)] ==
             IF k = 0 THEN 0 ELSE sum[k - 1] + c[k]
       IN  sum[Len(e.children)]

SumOver(roots, Count(_)) ==
  LET sum[k \in 0..Len(roots)] ==
        IF k = 0 THEN 0 ELSE sum[k - 1] + Count(roots[k])
  IN  sum[Len(roots)]

\* inherited prefixes tried on an element
Prefixes == {<<>>, <<"a", " ">>, <<"#", " ", "a", " ">>}

\* source-line notions
LineIndices == 0..(Len(file) - 1)
NonBlank(j) == j \in LineIndices /\ ~IsBlank(At(file, j))
Depth(j) == __count_indents__(At(file, j))
CommentLine(j) == NonBlank(j) /\ startswith_hash(strip(At(file, j)))

\* the first non-blank line after i that is not deeper than i, else the end
StopLine(i) ==
  LET stops == {j \in LineIndices : j > i /\ NonBlank(j) /\ Depth(j) <= Depth(i)}
  IN  IF stops = {} THEN Len(file)
      ELSE CHOOSE j \in stops : \A k \in stops : j <= k

\* the non-blank lines between i and the stopping line of i
Below(i) == {j \in LineIndices : i < j /\ j < StopLine(i) /\ NonBlank(j)}

\* j lies below a comment line that is i or lies below i
UnderComment(i, j) ==
  \E c \in LineIndices : c >= i /\ CommentLine(c) /\ j \in Below(c)

Min(S) == CHOOSE j \in S : \A k \in S : j <= k

SayHi == <<"s", "a", "y", " ", "h", "i">>

(***************************************************************************)
(* C1.  As documented: a Command Node without children compiles, for every *)
(* inherited prefix, to the single string prefix + text with no trailing   *)
(* space; the input `say hi` compiles to exactly the line `say hi`.        *)
(***************************************************************************)
C1_LeafHasNoTrailingSpace ==
  /\ \A e \in TreeElements : IsLeaf(e) =>
       \A p \in Prefixes : compile(e, p) = <<p \o e.string>>
  /\ (pc = "done" /\ file = ExampleSayHi) => compiled_list = <<SayHi>>

(***************************************************************************)
(* C2.  A Command Node with children compiles, for every inherited prefix  *)
(* p, to the concatenation in child order of its children compiled with    *)
(* prefix p + text + " ", and adds no line of its own; the children are in *)
(* source order; compile_tree_list concatenates the roots' compilations    *)
(* with the empty prefix, in root order.                                   *)
(***************************************************************************)
C2_ChildrenConcatenated ==
  /\ \A e \in TreeElements \cup StackElements :
       (e.kind = "node" /\ Len(e.children) > 0) =>
         /\ \A p \in Prefixes :
              compile(e, p) =
                Flatten([k \in 1..Len(e.children) |->
                           compile(e.children[k], p \o e.string \o <<" ">>)])
         /\ \A k \in 1..(Len(e.children) - 1) :
              e.children[k].line < e.children[k + 1].line
  /\ pc = "compile_tree_list" =>
       compiled_list =
         Flatten([k \in 1..ti |-> compile(tree_list[k], <<>>)])
  /\ pc = "done" =>
       compiled_list =
         Flatten([k \in 1..Len(tree_list) |-> compile(tree_list[k], <<>>)])

C2_Witness ==
  /\ pc = "done"
  /\ \E e \in TreeElements :
       /\ e.kind = "node" /\ Len(e.children) > 1
       /\ e.children[1].kind = "node" /\ Len(e.children[1].children) > 0
       /\ e.children[2].kind = "marker"

\* the number of line separators of a text
NewlineCount(str) == Cardinality({k \in 1..Len(str) : str[k] = "\n"})

(***************************************************************************)
(* C3.  The number of output lines equals the number of Command Nodes      *)
(* without children plus the number of Markers of the built tree.          *)
(***************************************************************************)
C3_LineCount ==
  pc = "done" =>
    /\ Len(compiled_list) =
         SumOver(tree_list, CountLeaves) + SumOver(tree_list, CountMarkers)
    /\ NewlineCount(compiled_string) = Len(compiled_list)

C3_Witness ==
  /\ pc = "done"
  /\ SumOver(tree_list, CountMarkers) > 0
  /\ SumOver(tree_list, CountLeaves) > 1
  /\ \E e \in TreeElements : e.kind = "node" /\ Len(e.children) > 0

(***************************************************************************)
(* C4.  A Marker of the built tree compiles, for every inherited prefix,   *)
(* to exactly one line, the trimmed text of its source line, and that line *)
(* is in the output unprefixed.                                            *)
(***************************************************************************)
C4_MarkerVerbatim ==
  /\ \A m \in TreeElements \cup StackElements : m.kind = "marker" =>
       \A p \in Prefixes : compile(m, p) = <<strip(At(file, m.line))>>
  /\ pc = "done" =>
       \A m \in TreeElements : m.kind = "marker" =>
         \E k \in 1..Len(compiled_list) :
            compiled_list[k] = strip(At(file, m.line))

C4_Witness ==
  /\ pc = "done"
  /\ \E e \in TreeElements :
       /\ e.kind = "node"
       /\ \E k \in 1..Len(e.children) :
            /\ e.children[k].kind = "marker"
            /\ Depth(e.children[k].line) > 1
            /\ At(file, e.children[k].line) # e.children[k].string

\* the line list with a line added after its first k lines, and with its
\* blank lines removed
InsertAt(f, k, b) == SubSeq(f, 1, k) \o <<b>> \o SubSeq(f, k + 1, Len(f))

RECURSIVE WithoutBlanks(_)
WithoutBlanks(f) ==
  IF f = <<>> THEN <<>>
  ELSE IF Len(strip(Head(f))) = 0 THEN WithoutBlanks(Tail(f))
  ELSE <<Head(f)>> \o WithoutBlanks(Tail(f))

(***************************************************************************)
(* C5.  Inserting a blank (empty or whitespace-only) line at any position, *)
(* or deleting the blank lines, leaves the compiled output unchanged, and  *)
(* no output line is blank.                                                *)
(***************************************************************************)
C5_BlankLinesIgnored ==
  pc = "done" =>
    /\ compile_file_fn(WithoutBlanks(file)) = compiled_string
    /\ \A k \in 0..Len(file) : \A b \in BlankLines :
         compile_file_fn(InsertAt(file, k, b)) = compiled_string
    /\ \A k \in 1..Len(compiled_list) : Len(strip(compiled_list[k])) > 0

C5_Witness ==
  /\ pc = "done"
  /\ Len(compiled_list) > 1
  /\ \E i \in LineIndices : \E j \in LineIndices :
       /\ i < j /\ NonBlank(i) /\ NonBlank(j)
       /\ \E b \in LineIndices : i < b /\ b < j /\ ~NonBlank(b) /\ Len(At(file, b)) > 0
  /\ WithoutBlanks(file) # file

\* the nearest earlier non-blank line that is shallower than j, if any
Shallower(j) == {i \in LineIndices : i < j /\ NonBlank(i) /\ Depth(i) < Depth(j)}
HasParent(j) == Shallower(j) # {}
Parent(j) == CHOOSE i \in Shallower(j) : \A k \in Shallower(j) : k <= i

TreeLines == {e.line : e \in TreeElements}

(***************************************************************************)
(* C6.  A comment line followed by deeper lines: each attachment to the    *)
(* Marker is a warning, nothing more; the Marker keeps no children, the    *)
(* lines below it are in no tree, building goes on with the first line     *)
(* that is not deeper than the comment, and the compilation completes with *)
(* the Marker's line in its output.                                        *)
(***************************************************************************)
C6_CommentKeepsNoChildren ==
  /\ \A m \in TreeElements \cup StackElements :
       m.kind = "marker" => m.children = <<>>
  /\ pc = "done" =>
       /\ warned = Cardinality({j \in LineIndices :
                      NonBlank(j) /\ HasParent(j) /\ CommentLine(Parent(j))})
       /\ \A c \in LineIndices : CommentLine(c) => Below(c) \cap TreeLines = {}
       /\ \A m \in TreeElements :
            (m.kind = "marker" /\ StopLine(m.line) < Len(file)) =>
               StopLine(m.line) \in TreeLines
       /\ \A m \in TreeElements : m.kind = "marker" =>
            \E k \in 1..Len(compiled_list) : compiled_list[k] = m.string

C6_Witness ==
  /\ pc = "done"
  /\ warned > 1
  /\ \E m \in TreeElements :
       /\ m.kind = "marker"
       /\ Cardinality(Below(m.line)) > 1
       /\ StopLine(m.line) < Len(file)

(***************************************************************************)
(* C7.  Every child of a Command Node was built from a line strictly       *)
(* deeper than the line its parent was built from.                         *)
(***************************************************************************)
C7_ChildrenDeeper ==
  \A e \in TreeElements \cup StackElements : e.kind = "node" =>
    \A k \in 1..Len(e.children) :
      Depth(e.children[k].line) > Depth(e.line)

C7_Witness ==
  /\ pc = "done"
  /\ \E e \in TreeElements :
       /\ e.kind = "node" /\ Len(e.children) > 1
       /\ Depth(e.children[1].line) > Depth(e.line) + 1
       /\ Depth(e.children[2].line) = Depth(e.line) + 1

(***************************************************************************)
(* C8.  As documented: every root is built from a line of depth 0.         *)
(***************************************************************************)
C8_RootsAtDepthZero ==
  \A k \in 1..Len(tree_list) : Depth(tree_list[k].line) = 0

(***************************************************************************)
(* C8, amended.  The roots are built, in order, from exactly the non-blank *)
(* lines that no earlier non-blank line is shallower than: a root's depth  *)
(* is at most the depth of every non-blank line before it, and is 0 when   *)
(* the first non-blank line has depth 0.                                   *)
(***************************************************************************)
C8_RootsNotNested ==
  /\ \A k \in 1..Len(tree_list) :
       /\ NonBlank(tree_list[k].line)
       /\ \A j \in LineIndices :
            (j < tree_list[k].line /\ NonBlank(j)) =>
               Depth(tree_list[k].line) <= Depth(j)
       /\ k < Len(tree_list) => tree_list[k].line < tree_list[k + 1].line
  /\ pc = "done" =>
       /\ {tree_list[k].line : k \in 1..Len(tree_list)} =
            {j \in LineIndices : NonBlank(j) /\ ~HasParent(j)}
       /\ (\E j \in LineIndices : NonBlank(j) /\ Depth(j) = 0
                                  /\ \A i \in 0..(j - 1) : ~NonBlank(i))
            => C8_RootsAtDepthZero

C8_Witness ==
  /\ pc = "done"
  /\ Len(tree_list) > 1
  /\ Depth(tree_list[1].line) > Depth(tree_list[2].line)
  /\ Depth(tree_list[2].line) > 0

\* what one step of the builder may do to the cursors
CursorStep ==
  /\ line' >= line /\ line' <= Len(file)
  /\ \A k \in 1..Len(stack') : stack'[k].next_line <= Len(file)
  /\ \A k \in 1..Len(stack) : k <= Len(stack') =>
       /\ stack'[k].line = stack[k].line
       /\ stack'[k].next_line >= stack[k].next_line
  \* a call
  /\ Len(stack') > Len(stack) =>
       /\ NonBlank(stack'[Len(stack')].line)
       /\ stack'[Len(stack')].next_line > stack'[Len(stack')].line
  \* a return completes an iteration of the caller's loop
  /\ Len(stack') < Len(stack) =>
       /\ Top.next_line > Top.line
       /\ IF Len(stack') = 0
            THEN line' = Top.next_line /\ line' > line
            ELSE /\ stack'[Len(stack')].next_line = Top.next_line
                 /\ stack'[Len(stack')].next_line >
                      stack[Len(stack')].next_line
  \* an iteration that skips a blank line
  /\ (pc' = "build_tree" /\ Len(stack') = Len(stack)) =>
       IF stack = <<>>
         THEN line' > line
         ELSE stack'[Len(stack')].next_line > Top.next_line

(***************************************************************************)
(* C9.  build_tree terminates: __build_element__ is only called at a       *)
(* non-blank line index and returns a cursor beyond it; no cursor (that of *)
(* build_tree, that of any look-ahead loop in progress) ever moves back or  *)
(* passes the end of input, and every iteration that completes moves its   *)
(* loop's cursor forward; the run reaches its end.                         *)
(***************************************************************************)
C9_BuilderTerminates ==
  /\ [][CursorStep]_vars
  /\ <>(pc = "done")

C9_Witness ==
  /\ pc = "done"
  /\ \E e \in TreeElements : \E k \in 1..Len(e.children) :
       /\ Len(e.children[k].children) > 0
       /\ \E b \in LineIndices :
            ~NonBlank(b) /\ e.line < b /\ b < e.children[k].line

\* the innermost call of __build_element__ is about to return; the cursor
\* it returns
Returning == pc = "build_tree" /\ stack # <<>> /\ LoopExit

ReturnsAtStopLine ==
  /\ Top.next_line = StopLine(Top.line)
  /\ \/ Top.next_line = Len(file)
     \/ NonBlank(Top.next_line) /\ Depth(Top.next_line) <= Top.indent
  /\ \A j \in LineIndices :
       (Top.line < j /\ j < Top.next_line /\ NonBlank(j)) =>
          Depth(j) > Top.indent

(***************************************************************************)
(* C10.  As documented: a call on line i of depth d returns the end of     *)
(* input or the first non-blank line after i of depth <= d; the non-blank  *)
(* lines in between are deeper than d and are part of the element's        *)
(* subtree, the first of them as a direct child.                           *)
(***************************************************************************)
C10_SubtreeHoldsAllDeeperLines ==
  Returning =>
    /\ ReturnsAtStopLine
    /\ Below(Top.line) \subseteq SubtreeLines(Top.current_element)
    /\ Below(Top.line) # {} =>
         /\ Len(Top.current_element.children) > 0
         /\ Top.current_element.children[1].line = Min(Below(Top.line))

(***************************************************************************)
(* C10, amended.  The cursor returned is as claimed and the lines in       *)
(* between are deeper than d and consumed by the call; they are part of    *)
(* the element's subtree except those below a comment line (the element's  *)
(* own line included), and the first of them is a direct child when the    *)
(* element is a Command Node.                                              *)
(***************************************************************************)
C10_SubtreeHoldsDeeperLinesNotUnderComments ==
  Returning =>
    /\ ReturnsAtStopLine
    /\ Top.indent = Depth(Top.line)
    /\ SubtreeLines(Top.current_element) =
         {Top.line} \cup
           {j \in Below(Top.line) : ~UnderComment(Top.line, j)}
    /\ (Top.current_element.kind = "node" /\ Below(Top.line) # {}) =>
         /\ Len(Top.current_element.children) > 0
         /\ Top.current_element.children[1].line = Min(Below(Top.line))

C10_Witness ==
  /\ Returning
  /\ Top.current_element.kind = "node"
  /\ Len(Top.current_element.children) > 1
  /\ Depth(Top.current_element.children[1].line) > Top.indent + 1
  /\ Top.next_line < Len(file)

====
